---- MODULE Spec2Model ----
(***************************************************************************)
(* AnkrscanProvider (src/src/index.ts): a JSON-RPC-over-HTTP client.       *)
(*                                                                         *)
(* The state is a set of client instances (url, request_config, _nextId),  *)
(* the log of HTTP POSTs handed to the transport, and the log of calls of  *)
(* the public methods with what each one settled to.  A call is one        *)
(* synchronous step (the public method runs into send up to its await:     *)
(* the envelope is built, the counter is incremented, the POST is issued)  *)
(* followed, later and in any order, by one step that resumes it with the  *)
(* transport's answer (a response, unwrapped by getResult, or a failure).  *)
(* JavaScript runs each of these steps to completion, so each is one       *)
(* action.                                                                 *)
(*                                                                         *)
(* Three specifications share the actions and differ in the inputs they    *)
(* draw: Spec (all ten methods, both instances, a few answers),            *)
(* SpecEnvelope (all ten methods, every constructor argument and request   *)
(* object, the dispatch side only) and SpecResponses (two methods, every   *)
(* response envelope and transport error).                                 *)
(***************************************************************************)
EXTENDS Naturals, Sequences, FiniteSets, TLC

VARIABLES client, ctorArgs, posts, calls

vars == <<client, ctorArgs, posts, calls>>

(***************************************************************************)
(* Bounds of the model.                                                    *)
(***************************************************************************)
MaxCalls == 2

Instances == {"A", "B"}

(***************************************************************************)
(* JavaScript values, tagged by type.  An object is a function from its    *)
(* own property names to values; a property that is absent is not in the   *)
(* function's domain.                                                      *)
(***************************************************************************)
Undefined == [t |-> "undefined"]

Null == [t |-> "null"]

NaN == [t |-> "NaN"]

Num(n) == [t |-> "number", n |-> n]

Str(s) == [t |-> "string", s |-> s]

Bool(b) == [t |-> "boolean", b |-> b]

Obj(f) == [t |-> "object", f |-> f]

EmptyObject == Obj([k \in {} |-> Undefined])

\* v[k] in JavaScript, for v that is neither null nor undefined: the own
\* property, or undefined when there is none (also on a primitive).
Get(v, k) ==
    IF v.t = "object" /\ k \in DOMAIN v.f THEN v.f[k] ELSE Undefined

\* The truthiness test of `if (v)`.
Truthy(v) ==
    CASE v.t = "undefined" -> FALSE
      [] v.t = "null" -> FALSE
      [] v.t = "NaN" -> FALSE
      [] v.t = "number" -> v.n # 0
      [] v.t = "string" -> v.s # ""
      [] v.t = "boolean" -> v.b
      [] OTHER -> TRUE

\* JSON.stringify, given as the JSON document its text denotes: a property
\* whose value is undefined is left out, a non-finite number is written as
\* null, every other value is written as itself.
RECURSIVE JSONstringify(_)
JSONstringify(v) ==
    CASE v.t = "object" ->
            Obj([k \in {j \in DOMAIN v.f : v.f[j].t # "undefined"} |->
                    JSONstringify(v.f[k])])
      [] v.t = "NaN" -> Null
      [] OTHER -> v

(***************************************************************************)
(* The constructor.                                                        *)
(***************************************************************************)
DefaultEndpoint == "https://rpc.ankr.com/multichain/"

ContentTypeJson == [headers |-> [ContentType |-> "application/json"]]

FirstId == 1

\* Mutant: the endpoint argument is ignored.
Constructor_DefaultOnly(apiKey, endpoint) ==
    [url |-> DefaultEndpoint \o apiKey,
     request_config |-> ContentTypeJson,
     _nextId |-> FirstId]

\* A default parameter value applies when the argument is undefined.
Constructor(apiKey, endpoint) ==
    LET ep == IF endpoint = Undefined THEN DefaultEndpoint ELSE endpoint.s
    IN  [url |-> ep \o apiKey,
         request_config |-> ContentTypeJson,
         _nextId |-> FirstId]

\* Constructor arguments the instances are built with.
DefaultKey123 == [apiKey |-> "KEY123", endpoint |-> Undefined]

CustomKey123 == [apiKey |-> "KEY123", endpoint |-> Str("https://custom.example/")]

DefaultOddKey == [apiKey |-> "k y/?&", endpoint |-> Undefined]

CtorArgs == {DefaultKey123, CustomKey123, DefaultOddKey}

TwoClients == [A |-> DefaultKey123, B |-> CustomKey123]

(***************************************************************************)
(* Request objects handed to the public methods: a plain one, an empty     *)
(* one, one with a non-finite number and one with an optional property set *)
(* to undefined.                                                           *)
(***************************************************************************)
PlainParams == Obj([blockchain |-> Str("eth"), fromBlock |-> Num(1)])

NaNParams == Obj([blockchain |-> Str("eth"), fromBlock |-> NaN])

UndefParams == Obj([blockchain |-> Str("eth"), fromBlock |-> Undefined])

ParamsDomain == {PlainParams, EmptyObject, NaNParams, UndefParams}

(***************************************************************************)
(* What the HTTP transport can answer.                                     *)
(***************************************************************************)
ResultX == Obj([count |-> Num(7)])

ResultY == Str("Y")

ErrorFull ==
    Obj([code |-> Num(3), message |-> Str("boom"),
         data |-> Obj([foo |-> Num(1)])])

ErrorMessageOnly == Obj([message |-> Str("boom")])

ErrorCodeOnly == Obj([code |-> Num(0)])

\* Response envelopes (response.data), as parsed from JSON.
FewPayloads ==
    {Obj([result |-> ResultX]),
     Obj([result |-> ResultY]),
     Obj([error |-> ErrorFull])}

Payloads ==
    FewPayloads \cup
    {EmptyObject,
     Obj([error |-> ErrorMessageOnly]),
     Obj([error |-> ErrorCodeOnly]),
     Obj([error |-> EmptyObject]),
     Obj([error |-> ErrorFull, result |-> ResultX]),
     Obj([error |-> Str("denied"), result |-> ResultY]),
     Obj([error |-> Null, result |-> ResultX]),
     Obj([error |-> Num(0), result |-> ResultY]),
     Obj([error |-> Str("")]),
     Obj([error |-> Bool(FALSE), result |-> ResultX])}

\* Errors the transport rejects with: no connection, timeout, non-2xx.
NetworkError == [t |-> "AxiosError", code |-> "ERR_NETWORK"]

TransportErrors ==
    {NetworkError,
     [t |-> "AxiosError", code |-> "ECONNABORTED"],
     [t |-> "AxiosError", code |-> "ERR_BAD_RESPONSE"]}

(***************************************************************************)
(* getResult.                                                              *)
(***************************************************************************)
\* new Error(m).message: the empty string when m is undefined, else the
\* string m converts to.
ErrorMessage(m) ==
    CASE m.t = "undefined" -> ""
      [] m.t = "string" -> m.s
      [] m.t = "null" -> "null"
      [] m.t = "boolean" -> IF m.b THEN "true" ELSE "false"

Return(v) == [kind |-> "return", value |-> v]

Throw(e) == [kind |-> "throw", value |-> e]

\* Mutant: the whole envelope is returned instead of its result.
getResult_WholePayload(payload) ==
    IF Truthy(Get(payload, "error"))
    THEN LET e == Get(payload, "error")
         IN  Throw([t |-> "Error",
                    message |-> ErrorMessage(Get(e, "message")),
                    code |-> Get(e, "code"),
                    data |-> Get(e, "data")])
    ELSE Return(payload)

\* Mutant: code and data are not attached to the error.
getResult_MessageOnly(payload) ==
    IF Truthy(Get(payload, "error"))
    THEN LET e == Get(payload, "error")
         IN  Throw([t |-> "Error",
                    message |-> ErrorMessage(Get(e, "message")),
                    code |-> Undefined,
                    data |-> Undefined])
    ELSE Return(Get(payload, "result"))

\* Mutant: a result that is present is returned before error is looked at.
getResult_ResultFirst(payload) ==
    IF Get(payload, "result") # Undefined
    THEN Return(Get(payload, "result"))
    ELSE IF Truthy(Get(payload, "error"))
         THEN LET e == Get(payload, "error")
              IN  Throw([t |-> "Error",
                         message |-> ErrorMessage(Get(e, "message")),
                         code |-> Get(e, "code"),
                         data |-> Get(e, "data")])
         ELSE Return(Get(payload, "result"))

getResult(payload) ==
    IF Truthy(Get(payload, "error"))
    THEN LET e == Get(payload, "error")
         IN  Throw([t |-> "Error",
                    message |-> ErrorMessage(Get(e, "message")),
                    code |-> Get(e, "code"),
                    data |-> Get(e, "data")])
    ELSE Return(Get(payload, "result"))

(***************************************************************************)
(* send.                                                                   *)
(***************************************************************************)
\* this._nextId++ : the value read, and the value stored.
\* Mutant: ++this._nextId, the incremented value is the one used.
NextId_PreIncrement(c) == c._nextId + 1

NextId(c) == c._nextId

\* Mutant: the incremented value is not stored.
Increment_Lost(cl, i) == cl

\* Mutant: one counter shared by all instances.
Increment_Shared(cl, i) == [j \in DOMAIN cl |-> [cl[j] EXCEPT !._nextId = @ + 1]]

Increment(cl, i) == [cl EXCEPT ![i]._nextId = @ + 1]

Request(method, params, id) ==
    Obj([method |-> Str(method), params |-> params, id |-> Num(id),
         jsonrpc |-> Str("2.0")])

\* axios.post(this.url, JSON.stringify(request), this.request_config)
Post(c, request) ==
    [url |-> c.url, body |-> JSONstringify(request), config |-> c.request_config]

\* The synchronous part of send, up to the await, called by public method
\* `name` of instance i.  posts[k] is the POST of calls[k].
send(i, name, method, params) ==
    /\ LET request == Request(method, params, NextId(client[i]))
       IN  /\ client' = Increment(client, i)
           /\ posts' = Append(posts, Post(client[i], request))
           /\ calls' = Append(calls,
                  [inst |-> i, name |-> name, params |-> params,
                   status |-> "pending", unwrapped |-> FALSE,
                   response |-> Undefined, value |-> Undefined])
    /\ UNCHANGED ctorArgs

\* The rest of send, after the await, when the POST of call c is answered
\* with a response whose data is payload.
Settle(c, payload) ==
    LET r == getResult(payload)
    IN  [c EXCEPT !.status = IF r.kind = "return" THEN "resolved" ELSE "rejected",
                  !.unwrapped = TRUE,
                  !.response = payload,
                  !.value = r.value]

\* The await throws what the transport rejected with; send has no catch.
Fail(c, err) ==
    [c EXCEPT !.status = "rejected", !.response = err, !.value = err]

(***************************************************************************)
(* Actions: the ten public methods, called with a request object of P      *)
(* while fewer than MaxCalls calls have been made, and the two ways the    *)
(* transport ends a pending POST.                                          *)
(***************************************************************************)
getLogs(P) ==
    /\ Len(calls) < MaxCalls
    /\ \E i \in Instances, p \in P :
          send(i, "getLogs", "ankr_getLogs", p)

getBlocks(P) ==
    /\ Len(calls) < MaxCalls
    /\ \E i \in Instances, p \in P :
          send(i, "getBlocks", "ankr_getBlocks", p)

getTransactionsByHash(P) ==
    /\ Len(calls) < MaxCalls
    /\ \E i \in Instances, p \in P :
          send(i, "getTransactionsByHash", "ankr_getTransactionsByHash", p)

getAccountBalance(P) ==
    /\ Len(calls) < MaxCalls
    /\ \E i \in Instances, p \in P :
          send(i, "getAccountBalance", "ankr_getAccountBalance", p)

getNFTsByOwner(P) ==
    /\ Len(calls) < MaxCalls
    /\ \E i \in Instances, p \in P :
          send(i, "getNFTsByOwner", "ankr_getNFTsByOwner", p)

getNFTMetadata(P) ==
    /\ Len(calls) < MaxCalls
    /\ \E i \in Instances, p \in P :
          send(i, "getNFTMetadata", "ankr_getNFTMetadata", p)

getTokenHolders(P) ==
    /\ Len(calls) < MaxCalls
    /\ \E i \in Instances, p \in P :
          send(i, "getTokenHolders", "ankr_getTokenHolders", p)

getTokenHoldersCount(P) ==
    /\ Len(calls) < MaxCalls
    /\ \E i \in Instances, p \in P :
          send(i, "getTokenHoldersCount", "ankr_getTokenHoldersCount", p)

\* Mutant: the procedure name of the neighbouring method.
getTokenPrice_CopyPaste(P) ==
    /\ Len(calls) < MaxCalls
    /\ \E i \in Instances, p \in P :
          send(i, "getTokenPrice", "ankr_getCurrencies", p)

getTokenPrice(P) ==
    /\ Len(calls) < MaxCalls
    /\ \E i \in Instances, p \in P :
          send(i, "getTokenPrice", "ankr_getTokenPrice", p)

getCurrencies(P) ==
    /\ Len(calls) < MaxCalls
    /\ \E i \in Instances, p \in P :
          send(i, "getCurrencies", "ankr_getCurrencies", p)

HttpResponse(D) ==
    \E k \in 1..Len(calls), payload \in D :
        /\ calls[k].status = "pending"
        /\ calls' = [calls EXCEPT ![k] = Settle(@, payload)]
        /\ UNCHANGED <<client, ctorArgs, posts>>

\* Mutant: a failed POST is issued again.
HttpFailure_Retry(E) ==
    \E k \in 1..Len(calls), err \in E :
        /\ calls[k].status = "pending"
        /\ posts' = Append(posts, posts[k])
        /\ UNCHANGED <<client, ctorArgs, calls>>

\* Mutant: the id of a failed call is given back.
HttpFailure_Rollback(E) ==
    \E k \in 1..Len(calls), err \in E :
        /\ calls[k].status = "pending"
        /\ calls' = [calls EXCEPT ![k] = Fail(@, err)]
        /\ client' = [client EXCEPT ![calls[k].inst]._nextId = @ - 1]
        /\ UNCHANGED <<ctorArgs, posts>>

HttpFailure(E) ==
    \E k \in 1..Len(calls), err \in E :
        /\ calls[k].status = "pending"
        /\ calls' = [calls EXCEPT ![k] = Fail(@, err)]
        /\ UNCHANGED <<client, ctorArgs, posts>>

\* The state after the instances are constructed with arguments of S.
Constructed(S) ==
    /\ ctorArgs \in S
    /\ client = [i \in Instances |->
                    Constructor(ctorArgs[i].apiKey, ctorArgs[i].endpoint)]
    /\ posts = <<>>
    /\ calls = <<>>

(***************************************************************************)
(* Spec: all ten methods on two instances, answered in any order.          *)
(***************************************************************************)
Init == Constructed({TwoClients})

Next ==
    \/ getLogs({PlainParams})
    \/ getBlocks({PlainParams})
    \/ getTransactionsByHash({PlainParams})
    \/ getAccountBalance({PlainParams})
    \/ getNFTsByOwner({PlainParams})
    \/ getNFTMetadata({PlainParams})
    \/ getTokenHolders({PlainParams})
    \/ getTokenHoldersCount({PlainParams})
    \/ getTokenPrice({PlainParams})
    \/ getCurrencies({PlainParams})
    \/ HttpResponse(FewPayloads)
    \/ HttpFailure({NetworkError})

Spec == Init /\ [][Next]_vars

(***************************************************************************)
(* SpecEnvelope: what is posted, for every constructor argument and every  *)
(* request object.                                                         *)
(***************************************************************************)
InitEnvelope == Constructed([Instances -> CtorArgs])

NextEnvelope ==
    \/ getLogs(ParamsDomain)
    \/ getBlocks(ParamsDomain)
    \/ getTransactionsByHash(ParamsDomain)
    \/ getAccountBalance(ParamsDomain)
    \/ getNFTsByOwner(ParamsDomain)
    \/ getNFTMetadata(ParamsDomain)
    \/ getTokenHolders(ParamsDomain)
    \/ getTokenHoldersCount(ParamsDomain)
    \/ getTokenPrice(ParamsDomain)
    \/ getCurrencies(ParamsDomain)

SpecEnvelope == InitEnvelope /\ [][NextEnvelope]_vars

(***************************************************************************)
(* SpecResponses: every response envelope and every transport error.       *)
(***************************************************************************)
NextResponses ==
    \/ getLogs({PlainParams})
    \/ getCurrencies({EmptyObject})
    \/ HttpResponse(Payloads)
    \/ HttpFailure(TransportErrors)

SpecResponses == Init /\ [][NextResponses]_vars

(***************************************************************************)
(* Properties.                                                             *)
(***************************************************************************)
\* The id in the envelope of the POST of call k.
IdOf(k) == posts[k].body.f.id

\* The calls among the first n that were made on the instance of call k.
SameInstance(k, n) == {j \in 1..n : calls[j].inst = calls[k].inst}

\* C1: on each instance the ids placed in the envelopes are 1, 2, ..., N in
\* the order the calls were dispatched, whatever has become of the calls
\* (pending, resolved, rejected) and in whatever order they were answered.
IdsInDispatchOrder ==
    \A k \in 1..Len(posts) : IdOf(k) = Num(Cardinality(SameInstance(k, k)))

\* C1 witness: two calls on one instance, the second already rejected while
\* the first is still pending.
IdsOutOfOrderCompletion ==
    /\ Len(calls) = 2
    /\ calls[1].inst = calls[2].inst
    /\ calls[1].status = "pending"
    /\ calls[2].status = "rejected"

\* C2: no two requests of one instance carry the same id, in any
\* interleaving of calls suspended at the HTTP boundary.
NoDuplicateIds ==
    \A j, k \in 1..Len(posts) :
        (j # k /\ calls[j].inst = calls[k].inst) => IdOf(j) # IdOf(k)

\* C2 witness: two calls of one instance pending at the same time.
TwoPendingOnOneInstance ==
    /\ Len(calls) = 2
    /\ calls[1].inst = calls[2].inst
    /\ calls[1].status = "pending"
    /\ calls[2].status = "pending"

\* C5: a call whose POST is answered with {result: X} and no error resolves
\* to exactly X, the result of its own response.
ResultDelivered ==
    \A k \in 1..Len(calls) :
        LET r == calls[k].response
        IN  (r.t = "object" /\ DOMAIN r.f = {"result"}) =>
                /\ calls[k].status = "resolved"
                /\ calls[k].value = r.f.result

\* C5 witness: two calls of different methods on one instance, both
\* resolved, each with a different result.
TwoResultsDelivered ==
    /\ Len(calls) = 2
    /\ calls[1].inst = calls[2].inst
    /\ calls[1].name = "getCurrencies"
    /\ calls[2].name = "getLogs"
    /\ calls[1].status = "resolved" /\ calls[1].value = ResultY
    /\ calls[2].status = "resolved" /\ calls[2].value = ResultX

InstancesIndependent ==
    /\ \A i \in Instances : client[i]._nextId = 1
    /\ [][/\ \A i \in Instances :
                /\ client'[i].url = client[i].url
                /\ client'[i].request_config = client[i].request_config
                /\ client'[i]._nextId >= client[i]._nextId
          /\ Len(calls') > Len(calls) =>
                \A b \in Instances \ {calls'[Len(calls')].inst} :
                    client'[b] = client[b]
          /\ Len(calls') = Len(calls) => client' = client]_vars

\* C10 witness: one call on each instance, each with id 1.
BothInstancesCalled ==
    /\ Len(calls) = 2
    /\ calls[1].inst = "A" /\ calls[2].inst = "B"
    /\ IdOf(1) = Num(1) /\ IdOf(2) = Num(1)
    /\ client["A"].url # client["B"].url

\* The remote procedure of each public method.
RemoteProcedure ==
    [getLogs |-> "ankr_getLogs",
     getBlocks |-> "ankr_getBlocks",
     getTransactionsByHash |-> "ankr_getTransactionsByHash",
     getAccountBalance |-> "ankr_getAccountBalance",
     getNFTsByOwner |-> "ankr_getNFTsByOwner",
     getNFTMetadata |-> "ankr_getNFTMetadata",
     getTokenHolders |-> "ankr_getTokenHolders",
     getTokenHoldersCount |-> "ankr_getTokenHoldersCount",
     getTokenPrice |-> "ankr_getTokenPrice",
     getCurrencies |-> "ankr_getCurrencies"]

\* The method and jsonrpc fields of the envelope of call k.
MethodAndVersion(k) ==
    /\ posts[k].body.f.method = Str(RemoteProcedure[calls[k].name])
    /\ posts[k].body.f.jsonrpc = Str("2.0")

\* An object without the properties whose value is undefined: two objects
\* are deep-equal when they agree on the rest.
Defined(o) == [k \in {j \in DOMAIN o.f : o.f[j] # Undefined} |-> o.f[k]]

\* A value that JSON text can carry as it is.
RECURSIVE IsJson(_)
IsJson(v) ==
    CASE v.t = "object" -> \A k \in DOMAIN v.f : IsJson(v.f[k])
      [] v.t = "NaN" -> FALSE
      [] v.t = "undefined" -> FALSE
      [] OTHER -> TRUE

\* C7 as stated: the envelope's method is the remote procedure of the
\* public method, its jsonrpc is "2.0" and its params deep-equals the input
\* object.
EnvelopeCarriesInput ==
    \A k \in 1..Len(posts) :
        /\ MethodAndVersion(k)
        /\ Defined(posts[k].body.f.params) = Defined(calls[k].params)

\* C7 amended: the envelope's method is the remote procedure of the public
\* method, its jsonrpc is "2.0" and its params is the input object as JSON
\* carries it: the properties whose value is undefined are left out, a
\* non-finite number is null, every other property is unchanged; an input
\* of JSON values only is posted unchanged.
EnvelopeCarriesJson ==
    \A k \in 1..Len(posts) :
        LET in == calls[k].params.f
            out == posts[k].body.f.params.f
        IN  /\ MethodAndVersion(k)
            /\ DOMAIN out = {key \in DOMAIN in : in[key] # Undefined}
            /\ \A key \in DOMAIN out :
                  out[key] = IF in[key] = NaN THEN Null ELSE in[key]
            /\ IsJson(calls[k].params) => out = in

\* C7 witness: getTokenPrice posted with a non-finite number and getLogs
\* with a property set to undefined.
OddParamsPosted ==
    /\ Len(calls) = 2
    /\ calls[1].name = "getTokenPrice" /\ calls[1].params = NaNParams
    /\ calls[2].name = "getLogs" /\ calls[2].params = UndefParams

\* The URL the claim gives for each pair of constructor arguments.
ExpectedUrl(a) ==
    CASE a = DefaultKey123 -> "https://rpc.ankr.com/multichain/KEY123"
      [] a = CustomKey123 -> "https://custom.example/KEY123"
      [] a = DefaultOddKey -> "https://rpc.ankr.com/multichain/k y/?&"

\* C8: the url of an instance is endpoint + apiKey, unencoded, with the
\* default endpoint when none is given, and every POST of the instance goes
\* to that url with the header Content-Type: application/json.
PostsGoToEndpointPlusKey ==
    /\ \A i \in Instances : client[i].url = ExpectedUrl(ctorArgs[i])
    /\ \A k \in 1..Len(posts) :
          /\ posts[k].url = ExpectedUrl(ctorArgs[calls[k].inst])
          /\ posts[k].config.headers = [ContentType |-> "application/json"]

\* C8 witness: a POST of an instance built with a custom endpoint and a
\* POST of an instance built with a key that URL-encoding would change.
PostedToCustomAndOddKey ==
    /\ Len(posts) = 2
    /\ ctorArgs[calls[1].inst] = CustomKey123
    /\ posts[1].url = "https://custom.example/KEY123"
    /\ ctorArgs[calls[2].inst] = DefaultOddKey

\* C3: a response whose envelope holds an error object rejects the call
\* with an error that has the message of the error object (the empty
\* string when it has none), its code and its data, each undefined when
\* the error object has none.
ProtocolErrorRejects ==
    \A k \in 1..Len(calls) :
        LET r == calls[k].response
        IN  (r.t = "object" /\ "error" \in DOMAIN r.f /\ r.f.error.t = "object") =>
                LET e == r.f.error.f
                    v == calls[k].value
                IN  /\ calls[k].status = "rejected"
                    /\ v.t = "Error"
                    /\ v.message = IF "message" \in DOMAIN e THEN e.message.s ELSE ""
                    /\ v.code = IF "code" \in DOMAIN e THEN e.code ELSE Undefined
                    /\ v.data = IF "data" \in DOMAIN e THEN e.data ELSE Undefined

\* C3 witness: a call rejected with message "boom", code 3 and data
\* {foo: 1}, and a call rejected by an error object without code and data.
BoomRejected ==
    /\ Len(calls) = 2
    /\ calls[1].response = Obj([error |-> ErrorFull])
    /\ calls[1].value =
          [t |-> "Error", message |-> "boom", code |-> Num(3),
           data |-> Obj([foo |-> Num(1)])]
    /\ calls[2].response = Obj([error |-> ErrorMessageOnly])
    /\ calls[2].status = "rejected"

\* C4 as stated: a call whose response envelope has an error field,
\* whatever its value, is rejected, and a call resolves only when the
\* envelope has no error field.
ErrorPresenceWins ==
    \A k \in 1..Len(calls) :
        calls[k].unwrapped =>
            ("error" \in DOMAIN calls[k].response.f <=> calls[k].status = "rejected")

\* The JSON values that `if (v)` takes as false.
FalsyJson == {Null, Num(0), Str(""), Bool(FALSE)}

\* C4 amended: an error field that is present and truthy (any object, any
\* non-empty string, any non-zero number, true) rejects the call whether or
\* not there is a result; otherwise (no error field, or null, 0, "" or
\* false) the call resolves to result, undefined when there is none.
ErrorTruthyWins ==
    \A k \in 1..Len(calls) :
        calls[k].unwrapped =>
            LET r == calls[k].response.f
            IN  IF "error" \in DOMAIN r /\ r.error \notin FalsyJson
                THEN /\ calls[k].status = "rejected"
                     /\ calls[k].value.t = "Error"
                ELSE /\ calls[k].status = "resolved"
                     /\ calls[k].value =
                           IF "result" \in DOMAIN r THEN r.result ELSE Undefined

\* C4 witness: an envelope with an error object and a result rejects, an
\* envelope with error null and a result resolves to the result.
ErrorAndResultBoth ==
    /\ Len(calls) = 2
    /\ calls[1].response = Obj([error |-> ErrorFull, result |-> ResultX])
    /\ calls[1].status = "rejected"
    /\ calls[2].response = Obj([error |-> Null, result |-> ResultX])
    /\ calls[2].status = "resolved"

\* C9: a call whose POST fails in the transport is rejected with the
\* transport's error itself and getResult is not run; its id stays used
\* (a later call on the instance gets a larger one); and the step that
\* fails it issues no POST, changes no counter and touches no other call.
TransportFailurePropagates ==
    /\ [](\A k \in 1..Len(calls) :
             calls[k].response.t = "AxiosError" =>
                 /\ calls[k].status = "rejected"
                 /\ calls[k].value = calls[k].response
                 /\ ~calls[k].unwrapped
                 /\ \A j \in (k + 1)..Len(calls) :
                       calls[j].inst = calls[k].inst => IdOf(j).n > IdOf(k).n)
    /\ [][\A k \in 1..Len(calls) :
             (calls[k].status = "pending" /\ calls'[k].response.t = "AxiosError") =>
                 /\ posts' = posts
                 /\ client' = client
                 /\ \A j \in 1..Len(calls) : j # k => calls'[j] = calls[j]]_vars

\* C9 witness: a call that timed out, and a later call on the same instance
\* that was given the next id.
TimedOutThenNextId ==
    /\ Len(calls) = 2
    /\ calls[1].value = [t |-> "AxiosError", code |-> "ECONNABORTED"]
    /\ calls[2].inst = calls[1].inst
    /\ IdOf(1) = Num(1) /\ IdOf(2) = Num(2)

====
